---- MODULE Spec2Model ----
(***************************************************************************)
(* ldproxy (src/ldproxy/src/main.rs): one invocation of the linker proxy   *)
(* as a state machine.  A string is a sequence of one-character strings,   *)
(* so that starts_with, contains, rfind, strip_prefix and join are         *)
(* computed on characters.  An Option<T> is a sequence of length 0 (None)  *)
(* or 1 (Some).                                                            *)
(***************************************************************************)
EXTENDS Integers, Sequences, FiniteSets, TLC

VARIABLES
    pc,                     \* position in main()
    argv,                   \* env::args().skip(1)
    rsp_fs,                 \* the file named "r": [exists, readable, content]
    env,                    \* environment variables: name -> Option<String>
    path_bins,              \* the basenames which::which finds on PATH
    build_fs,               \* <FS_TARGET>/build: [exists, readable, entries]
    args,                   \* `args` (lines 89..211)
    linker,                 \* Option: the resolved linker (line 101)
    remove_duplicate_libs,  \* line 137
    cwd,                    \* Option<String> (line 136, line 163)
    target_dir,             \* Option<PathBuf> (line 141)
    use_response_file,      \* line 222
    tmp_file,               \* ldproxy-<pid>.rsp in temp_dir: Option<content>
    cmd_args,               \* the argument vector of `cmd`
    cmd_cwd,                \* the current_dir of `cmd`
    spawns,                 \* how many times cmd.output() started the linker
    output                  \* the outcome of cmd.output()

vars == <<pc, argv, rsp_fs, env, path_bins, build_fs, args, linker,
          remove_duplicate_libs, cwd, target_dir, use_response_file,
          tmp_file, cmd_args, cmd_cwd, spawns, output>>

(***************************************************************************)
(* Strings                                                                 *)
(***************************************************************************)
None == <<>>
Some(v) == <<v>>
IsSome(o) == Len(o) = 1

\* str::starts_with
StartsWith(s, p) == Len(s) >= Len(p) /\ SubSeq(s, 1, Len(p)) = p

\* the 1-based places where p occurs in s
Occurrences(s, p) == {i \in 1..(Len(s) - Len(p) + 1) : SubSeq(s, i, i + Len(p) - 1) = p}

\* str::contains
Contains(s, p) == Occurrences(s, p) # {}

\* str::rfind: the 0-based byte offset of the last occurrence (callers test Contains first)
RFind(s, p) == (CHOOSE i \in Occurrences(s, p) : \A j \in Occurrences(s, p) : j <= i) - 1

\* str::strip_prefix: Option<&str>
StripPrefix(s, p) == IF StartsWith(s, p) THEN Some(SubSeq(s, Len(p) + 1, Len(s))) ELSE None

\* the sequences over S of length at most n
SeqsUpTo(S, n) == UNION {[1..k -> S] : k \in 0..n}

\* n copies of t
Repeat(t, n) == [i \in 1..n |-> t]

(***************************************************************************)
(* Program constants                                                       *)
(***************************************************************************)
\* build::LDPROXY_LINKER_ARG, as spelled at line 50
LDPROXY_LINKER_ARG == <<"-","-","l","d","p","r","o","x","y","-","l","i","n","k","e","r">>
\* build::LDPROXY_WORKING_DIRECTORY_ARG, as spelled at line 39
LDPROXY_WORKING_DIRECTORY_ARG == <<"-","-","l","d","p","r","o","x","y","-","c","w","d">>
\* build::LDPROXY_DEDUP_LIBS_ARG
LDPROXY_DEDUP_LIBS_ARG == <<"-","-","l","d","p","r","o","x","y","-","d","e","d","u","p","-","l","i","b","s">>
\* line 55
LDPROXY_PREFIX == <<"-","-","l","d","p","r","o","x","y">>
\* line 37
LINK_ARG_DIRECTIVE == <<"c","a","r","g","o",":","r","u","s","t","c","-","l","i","n","k","-","a","r","g","=">>
\* line 30
ESP_IDF_SYS_PREFIX == <<"e","s","p","-","i","d","f","-","s","y","s","-">>
\* line 185
LIB_PREFIX == <<"-","l">>
\* line 144
TARGET_MARKER == <<"/","t","a","r","g","e","t","/">>
DEPS_MARKER == <<"/","d","e","p","s","/">>
\* lines 107..110, in the order they are consulted
CC_VARS == <<"CC_riscv32imafc_esp_espidf", "CC_riscv32imac_esp_espidf",
             "CC_riscv32imc_esp_espidf", "CC">>
\* lines 113..117
possible_linkers == << <<"r","i","s","c","v","3","2","-","e","s","p","-","e","l","f","-","g","c","c">>, <<"r","i","s","c","v","3","2","-","u","n","k","n","o","w","n","-","e","l","f","-","g","c","c">>,
                       <<"r","i","s","c","v","6","4","-","u","n","k","n","o","w","n","-","e","l","f","-","g","c","c">> >>
\* line 222
RSP_THRESHOLD == 500
\* line 227: env::temp_dir().join(format!("ldproxy-{}.rsp", std::process::id()))
response_file == <<"/","t","m","p","/","l","d","p","r","o","x","y","-","7",".","r","s","p">>

(***************************************************************************)
(* args(): one level of @file expansion (lines 284..312)                   *)
(***************************************************************************)
\* the one response file of the modelled file system
RSP_PATH == <<"r">>

\* Path::exists (line 296)
RspExists(fs, path) == path = RSP_PATH /\ fs.exists

WHITESPACE == {" ", "\n", "\t"}

\* embuild::cli::UnixCommandArgs: Unix shell word splitting of `s` from place i;
\* cur is the word being read (in_word), mode is the quoting in force
RECURSIVE ShellWords(_, _, _, _, _, _)
ShellWords(s, i, cur, in_word, mode, out) ==
    IF i > Len(s) THEN (IF in_word THEN Append(out, cur) ELSE out)
    ELSE LET c == s[i] IN
      CASE mode = "plain" ->
             IF c \in WHITESPACE
               THEN ShellWords(s, i + 1, <<>>, FALSE, "plain",
                               IF in_word THEN Append(out, cur) ELSE out)
             ELSE IF c = "'" THEN ShellWords(s, i + 1, cur, TRUE, "single", out)
             ELSE IF c = "\"" THEN ShellWords(s, i + 1, cur, TRUE, "double", out)
             ELSE IF c = "\\" /\ i < Len(s)
               THEN ShellWords(s, i + 2, Append(cur, s[i + 1]), TRUE, "plain", out)
             ELSE ShellWords(s, i + 1, Append(cur, c), TRUE, "plain", out)
        [] mode = "single" ->
             IF c = "'" THEN ShellWords(s, i + 1, cur, TRUE, "plain", out)
             ELSE ShellWords(s, i + 1, Append(cur, c), TRUE, "single", out)
        [] OTHER ->
             IF c = "\"" THEN ShellWords(s, i + 1, cur, TRUE, "plain", out)
             ELSE IF c = "\\" /\ i < Len(s)
               THEN ShellWords(s, i + 2, Append(cur, s[i + 1]), TRUE, "double", out)
             ELSE ShellWords(s, i + 1, Append(cur, c), TRUE, "double", out)

UnixCommandArgs(contents) == ShellWords(contents, 1, <<>>, FALSE, "plain", <<>>)

\* variant of ArgsStep for C9: an "@<path>" whose path does not exist is dropped
ArgsStep_DropMissing(st, arg, fs) ==
    IF st.err THEN st
    ELSE LET rsp_file_str == StripPrefix(arg, <<"@">>) IN
      IF IsSome(rsp_file_str)
        THEN IF RspExists(fs, rsp_file_str[1])
               THEN IF fs.readable
                      THEN [st EXCEPT !.result = @ \o UnixCommandArgs(fs.content)]
                      ELSE [st EXCEPT !.err = TRUE]
               ELSE st
        ELSE [st EXCEPT !.result = Append(@, arg)]

\* the body of the loop of args() for one raw argument (lines 293..308);
\* st.err is the `?` of line 297 having returned
ArgsStep(st, arg, fs) ==
    IF st.err THEN st
    ELSE LET rsp_file_str == StripPrefix(arg, <<"@">>) IN
      IF IsSome(rsp_file_str)
        THEN IF RspExists(fs, rsp_file_str[1])
               THEN IF fs.readable
                      THEN [st EXCEPT !.result = @ \o UnixCommandArgs(fs.content)]
                      ELSE [st EXCEPT !.err = TRUE]
               ELSE [st EXCEPT !.result = Append(@, arg)]
        ELSE [st EXCEPT !.result = Append(@, arg)]

\* the loop of line 287 over raw[lo..hi], in order.  This loop and the ones
\* below run over lists of more than RSP_THRESHOLD tokens: each is split in
\* halves, the first half evaluated before the second is entered, which
\* bounds the depth of the evaluation by the logarithm of the length.  Where
\* the loop has no early exit of its own, a test on `left` that always holds
\* stands between the halves to that end.
RECURSIVE ArgsLoop(_, _, _, _, _)
ArgsLoop(st, raw, fs, lo, hi) ==
    IF lo > hi THEN st
    ELSE IF lo = hi THEN ArgsStep(st, raw[lo], fs)
    ELSE LET mid == (lo + hi) \div 2
             left == ArgsLoop(st, raw, fs, lo, mid)
         IN IF left.err THEN left ELSE ArgsLoop(left, raw, fs, mid + 1, hi)

\* args(): [err, result]
Args(raw, fs) == ArgsLoop([err |-> FALSE, result |-> <<>>], raw, fs, 1, Len(raw))

(***************************************************************************)
(* The control flags (lines 93..98, 136, 137) and the linker (101..132)    *)
(***************************************************************************)
\* one token of ParseFrom::parse_from (embuild::cli): the linker and the
\* working-directory flag take the next token as their value, the dedup flag
\* takes none, and every other token is passed through in order
ParseStep(st, tok) ==
    IF st.pending = "linker"
      THEN [st EXCEPT !.linker = Append(@, tok), !.pending = "none"]
    ELSE IF st.pending = "cwd"
      THEN [st EXCEPT !.cwd = Append(@, tok), !.pending = "none"]
    ELSE IF tok = LDPROXY_LINKER_ARG
      THEN [st EXCEPT !.pending = "linker", !.linker_ok = TRUE]
    ELSE IF tok = LDPROXY_WORKING_DIRECTORY_ARG
      THEN [st EXCEPT !.pending = "cwd", !.cwd_ok = TRUE]
    ELSE IF tok = LDPROXY_DEDUP_LIBS_ARG
      THEN [st EXCEPT !.dedup_ok = TRUE]
    ELSE [st EXCEPT !.rest = Append(@, tok)]

RECURSIVE ParseLoop(_, _, _, _)
ParseLoop(st, toks, lo, hi) ==
    IF lo > hi THEN st
    ELSE IF lo = hi THEN ParseStep(st, toks[lo])
    ELSE LET mid == (lo + hi) \div 2
             left == ParseLoop(st, toks, lo, mid)
         IN IF Len(left.rest) <= mid THEN ParseLoop(left, toks, mid + 1, hi) ELSE left

\* [LINKER, DEDUP, CWD].parse_from(&mut args): the three results and what
\* is left of args
ParseFrom(toks) ==
    ParseLoop([rest |-> <<>>, pending |-> "none",
               linker_ok |-> FALSE, linker |-> <<>>,
               cwd_ok |-> FALSE, cwd |-> <<>>,
               dedup_ok |-> FALSE], toks, 1, Len(toks))

\* Result::ok().and_then(|v| v.into_iter().next_back()) (lines 102, 103, 136)
LastValue(ok, values) ==
    IF ok /\ values # <<>> THEN Some(values[Len(values)]) ELSE None

\* the loop of lines 118..123 over possible_linkers[i..]
RECURSIVE WhichLinker(_, _)
WhichLinker(bins, i) ==
    IF i > Len(possible_linkers) THEN None
    ELSE IF possible_linkers[i] \in bins THEN Some(possible_linkers[i])
    ELSE WhichLinker(bins, i + 1)

\* variant of EnvLinker for C7: the variables are consulted in the reverse order
RECURSIVE EnvLinker_Reversed(_, _, _)
EnvLinker_Reversed(e, bins, i) ==
    IF i > Len(CC_VARS) THEN WhichLinker(bins, 1)
    ELSE IF IsSome(e[CC_VARS[Len(CC_VARS) + 1 - i]]) THEN e[CC_VARS[Len(CC_VARS) + 1 - i]]
    ELSE EnvLinker_Reversed(e, bins, i + 1)

\* env::var(CC_VARS[i]).or_else(...) (lines 107..124)
RECURSIVE EnvLinker(_, _, _)
EnvLinker(e, bins, i) ==
    IF i > Len(CC_VARS) THEN WhichLinker(bins, 1)
    ELSE IF IsSome(e[CC_VARS[i]]) THEN e[CC_VARS[i]]
    ELSE EnvLinker(e, bins, i + 1)

\* lines 101..126: Option<String>; None is the panic of line 128
ResolveLinker(parsed, e, bins) ==
    LET from_args == LastValue(parsed.linker_ok, parsed.linker) IN
    IF IsSome(from_args) THEN from_args ELSE EnvLinker(e, bins, 1)

(***************************************************************************)
(* The target directory (lines 141..153)                                   *)
(***************************************************************************)
\* the body of the loop of line 143; a found directory is the `break`
TargetStep(found, arg) ==
    IF IsSome(found) THEN found
    ELSE IF Contains(arg, TARGET_MARKER) /\ Contains(arg, DEPS_MARKER)
      THEN Some(SubSeq(arg, 1, RFind(arg, DEPS_MARKER)))
    ELSE None

RECURSIVE TargetLoop(_, _, _, _)
TargetLoop(found, toks, lo, hi) ==
    IF lo > hi THEN found
    ELSE IF lo = hi THEN TargetStep(found, toks[lo])
    ELSE LET mid == (lo + hi) \div 2
             left == TargetLoop(found, toks, lo, mid)
         IN IF IsSome(left) THEN left ELSE TargetLoop(left, toks, mid + 1, hi)

InferTargetDir(toks) == TargetLoop(None, toks, 1, Len(toks))

(***************************************************************************)
(* read_esp_idf_sys_link_args (lines 15..70)                               *)
(***************************************************************************)
\* the one target directory of the modelled file system that has a build/
FS_TARGET == <<"/","t","a","r","g","e","t">>

\* target_dir.join("build") (lines 19, 20, 25): what the file system holds there
BuildDir(fs, dir) ==
    IF dir = FS_TARGET THEN fs
    ELSE [exists |-> FALSE, readable |-> FALSE, entries |-> <<>>]

\* variant of LineStep for C4: the test of line 55 is left out
LineStep_NoPrefixTest(st, line) ==
    LET arg == StripPrefix(line, LINK_ARG_DIRECTIVE) IN
    IF ~IsSome(arg) THEN st
    ELSE IF arg[1] = LDPROXY_WORKING_DIRECTORY_ARG
      THEN [st EXCEPT !.skip_next = TRUE]
    ELSE IF st.skip_next
      THEN [st EXCEPT !.working_dir = Some(arg[1]), !.skip_next = FALSE]
    ELSE IF arg[1] = LDPROXY_LINKER_ARG
      THEN [st EXCEPT !.skip_next = TRUE]
    ELSE [st EXCEPT !.link_args = Append(@, arg[1])]

\* the body of the loop of line 36 for one line of the output file
LineStep(st, line) ==
    LET arg == StripPrefix(line, LINK_ARG_DIRECTIVE) IN
    IF ~IsSome(arg) THEN st
    ELSE IF arg[1] = LDPROXY_WORKING_DIRECTORY_ARG
      THEN [st EXCEPT !.skip_next = TRUE]
    ELSE IF st.skip_next
      THEN [st EXCEPT !.working_dir = Some(arg[1]), !.skip_next = FALSE]
    ELSE IF arg[1] = LDPROXY_LINKER_ARG
      THEN [st EXCEPT !.skip_next = TRUE]
    ELSE IF ~StartsWith(arg[1], LDPROXY_PREFIX)
      THEN [st EXCEPT !.link_args = Append(@, arg[1])]
    ELSE st

RECURSIVE LinesLoop(_, _, _)
LinesLoop(st, lines, i) ==
    IF i > Len(lines) THEN st ELSE LinesLoop(LineStep(st, lines[i]), lines, i + 1)

\* lines 31..62 for the matching directory `entry`
ReadOutput(st, entry) ==
    IF entry.out_exists /\ entry.out_readable
      THEN LinesLoop(st, entry.lines, 1)
      ELSE st

\* variant of EntriesLoop for C10: the `break` of line 63 is left out
RECURSIVE EntriesLoop_NoBreak(_, _, _)
EntriesLoop_NoBreak(st, entries, i) ==
    IF i > Len(entries) THEN st
    ELSE IF entries[i].is_dir /\ StartsWith(entries[i].name, ESP_IDF_SYS_PREFIX)
      THEN EntriesLoop_NoBreak(ReadOutput(st, entries[i]), entries, i + 1)
    ELSE EntriesLoop_NoBreak(st, entries, i + 1)

\* the loop of line 26 over entries[i..]; the `break` of line 63 ends it
RECURSIVE EntriesLoop(_, _, _)
EntriesLoop(st, entries, i) ==
    IF i > Len(entries) THEN st
    ELSE IF entries[i].is_dir /\ StartsWith(entries[i].name, ESP_IDF_SYS_PREFIX)
      THEN ReadOutput(st, entries[i])
    ELSE EntriesLoop(st, entries, i + 1)

\* read_esp_idf_sys_link_args(dir): (link_args, working_dir)
read_esp_idf_sys_link_args(fs, dir) ==
    LET build_dir == BuildDir(fs, dir)
        st0 == [link_args |-> <<>>, working_dir |-> None, skip_next |-> FALSE]
        st == IF ~build_dir.exists THEN st0
              ELSE IF ~build_dir.readable THEN st0
              ELSE EntriesLoop(st0, build_dir.entries, 1)
    IN [link_args |-> st.link_args, working_dir |-> st.working_dir]

(***************************************************************************)
(* Duplicate libraries (lines 179..211)                                    *)
(***************************************************************************)
EmptyMap == [x \in {} |-> 0]

\* the body of the loop of line 184
CountStep(libs, arg) ==
    IF StartsWith(arg, LIB_PREFIX)
      THEN IF arg \in DOMAIN libs
             THEN [libs EXCEPT ![arg] = @ + 1]
             ELSE [x \in DOMAIN libs \cup {arg} |-> IF x = arg THEN 1 ELSE libs[x]]
      ELSE libs

RECURSIVE CountLoop(_, _, _, _)
CountLoop(libs, toks, lo, hi) ==
    IF lo > hi THEN libs
    ELSE IF lo = hi THEN CountStep(libs, toks[lo])
    ELSE LET mid == (lo + hi) \div 2
             left == CountLoop(libs, toks, lo, mid)
         IN IF DOMAIN left = {} \/ mid >= 1
              THEN CountLoop(left, toks, mid + 1, hi) ELSE left

\* variant of WalkStep for C1: the test of line 203 reads the map as it was
\* before lines 195..201 updated it
WalkStep_StaleMap(st, arg) ==
    LET libs == IF arg \in DOMAIN st.libs
                  THEN IF st.libs[arg] - 1 = 0
                         THEN [x \in DOMAIN st.libs \ {arg} |-> st.libs[x]]
                         ELSE [st.libs EXCEPT ![arg] = @ - 1]
                  ELSE st.libs
    IN [libs |-> libs,
        deduped_args |-> IF arg \notin DOMAIN st.libs
                           THEN Append(st.deduped_args, arg)
                           ELSE st.deduped_args]

\* the body of the loop of line 194
WalkStep(st, arg) ==
    LET libs == IF arg \in DOMAIN st.libs
                  THEN IF st.libs[arg] - 1 = 0
                         THEN [x \in DOMAIN st.libs \ {arg} |-> st.libs[x]]
                         ELSE [st.libs EXCEPT ![arg] = @ - 1]
                  ELSE st.libs
    IN [libs |-> libs,
        deduped_args |-> IF arg \notin DOMAIN libs
                           THEN Append(st.deduped_args, arg)
                           ELSE st.deduped_args]

RECURSIVE WalkLoop(_, _, _, _)
WalkLoop(st, toks, lo, hi) ==
    IF lo > hi THEN st
    ELSE IF lo = hi THEN WalkStep(st, toks[lo])
    ELSE LET mid == (lo + hi) \div 2
             left == WalkLoop(st, toks, lo, mid)
         IN IF Len(left.deduped_args) <= mid
              THEN WalkLoop(left, toks, mid + 1, hi) ELSE left

\* lines 182..208
DedupLibs(toks) ==
    WalkLoop([libs |-> CountLoop(EmptyMap, toks, 1, Len(toks)),
              deduped_args |-> <<>>], toks, 1, Len(toks)).deduped_args

(***************************************************************************)
(* The response file (lines 227..236)                                      *)
(***************************************************************************)
\* variant of UseResponseFile for C3: the threshold itself takes the file
UseResponseFile_AtThreshold(toks) == Len(toks) >= RSP_THRESHOLD

\* line 222
UseResponseFile(toks) == Len(toks) > RSP_THRESHOLD

\* toks[lo..hi].join("\n")
RECURSIVE JoinLines(_, _, _)
JoinLines(toks, lo, hi) ==
    IF lo > hi THEN <<>>
    ELSE IF lo = hi THEN toks[lo]
    ELSE LET mid == (lo + hi) \div 2 IN
           JoinLines(toks, lo, mid) \o <<"\n">> \o JoinLines(toks, mid + 1, hi)

\* line 228
ResponseContent(toks) == JoinLines(toks, 1, Len(toks))

\* line 236: format!("@{}", response_file.display())
AtFile(path) == <<"@">> \o path

\* variant of Verdict for C8: LDPROXY_LINK_FAIL is not looked at
Verdict_NoHook(out, e) == IF ~out.success THEN "err" ELSE "ok"

\* lines 265..276: how main returns once the linker's output is decoded
Verdict(out, e) ==
    IF ~out.success THEN "err"
    ELSE IF IsSome(e["LDPROXY_LINK_FAIL"]) THEN "err"
    ELSE "ok"

(***************************************************************************)
(* main (lines 72..277), one action per stage                              *)
(***************************************************************************)
Ended == pc \in {"ok", "err", "panic"}

\* line 89
Ingest ==
    /\ pc = "start"
    /\ LET r == Args(argv, rsp_fs) IN
         IF r.err
           THEN pc' = "err" /\ args' = args
           ELSE pc' = "parse" /\ args' = r.result
    /\ UNCHANGED <<argv, rsp_fs, env, path_bins, build_fs, linker,
                   remove_duplicate_libs, cwd, target_dir, use_response_file,
                   tmp_file, cmd_args, cmd_cwd, spawns, output>>

\* lines 93..137
ParseFlags ==
    /\ pc = "parse"
    /\ LET parsed == ParseFrom(args)
           resolved == ResolveLinker(parsed, env, path_bins)
       IN /\ args' = parsed.rest
          /\ linker' = resolved
          /\ pc' = IF IsSome(resolved) THEN "infer" ELSE "panic"
          /\ cwd' = IF IsSome(resolved)
                      THEN LastValue(parsed.cwd_ok, parsed.cwd) ELSE cwd
          /\ remove_duplicate_libs' = IF IsSome(resolved)
                                        THEN parsed.dedup_ok
                                        ELSE remove_duplicate_libs
    /\ UNCHANGED <<argv, rsp_fs, env, path_bins, build_fs, target_dir,
                   use_response_file, tmp_file, cmd_args, cmd_cwd, spawns,
                   output>>

\* lines 141..153
InferTarget ==
    /\ pc = "infer"
    /\ target_dir' = InferTargetDir(args)
    /\ pc' = "merge"
    /\ UNCHANGED <<argv, rsp_fs, env, path_bins, build_fs, args, linker,
                   remove_duplicate_libs, cwd, use_response_file, tmp_file,
                   cmd_args, cmd_cwd, spawns, output>>

\* lines 156..177
MergeSideChannel ==
    /\ pc = "merge"
    /\ IF IsSome(target_dir)
         THEN LET esp == read_esp_idf_sys_link_args(build_fs, target_dir[1]) IN
                /\ cwd' = IF IsSome(esp.working_dir) THEN esp.working_dir ELSE cwd
                /\ args' = IF esp.link_args # <<>> THEN args \o esp.link_args ELSE args
         ELSE UNCHANGED <<cwd, args>>
    /\ pc' = "dedup"
    /\ UNCHANGED <<argv, rsp_fs, env, path_bins, build_fs, linker,
                   remove_duplicate_libs, target_dir, use_response_file,
                   tmp_file, cmd_args, cmd_cwd, spawns, output>>

\* lines 179..211
Dedup ==
    /\ pc = "dedup"
    /\ args' = IF remove_duplicate_libs THEN DedupLibs(args) ELSE args
    /\ pc' = "command"
    /\ UNCHANGED <<argv, rsp_fs, env, path_bins, build_fs, linker,
                   remove_duplicate_libs, cwd, target_dir, use_response_file,
                   tmp_file, cmd_args, cmd_cwd, spawns, output>>

\* lines 213..240; write_ok is whether fs::write (line 230) succeeds
BuildCommand ==
    /\ pc = "command"
    /\ cmd_cwd' = cwd
    /\ use_response_file' = UseResponseFile(args)
    /\ IF UseResponseFile(args)
         THEN \E write_ok \in BOOLEAN :
                IF write_ok
                  THEN /\ tmp_file' = Some(ResponseContent(args))
                       /\ cmd_args' = <<AtFile(response_file)>>
                  ELSE /\ tmp_file' = tmp_file
                       /\ cmd_args' = args
         ELSE /\ tmp_file' = tmp_file
              /\ cmd_args' = args
    /\ pc' = "spawn"
    /\ UNCHANGED <<argv, rsp_fs, env, path_bins, build_fs, args, linker,
                   remove_duplicate_libs, cwd, target_dir, spawns, output>>

\* line 251: cmd.output()? either fails to start the linker, or runs it to
\* its exit status with its captured output
RunLinker ==
    /\ pc = "spawn"
    /\ \/ /\ pc' = "err"
          /\ UNCHANGED <<spawns, output>>
       \/ \E success \in BOOLEAN, utf8 \in BOOLEAN :
            /\ spawns' = spawns + 1
            /\ output' = Some([success |-> success, utf8 |-> utf8])
            /\ pc' = "cleanup"
    /\ UNCHANGED <<argv, rsp_fs, env, path_bins, build_fs, args, linker,
                   remove_duplicate_libs, cwd, target_dir, use_response_file,
                   tmp_file, cmd_args, cmd_cwd>>

\* lines 254..257
Cleanup ==
    /\ pc = "cleanup"
    /\ tmp_file' = IF use_response_file THEN None ELSE tmp_file
    /\ pc' = "decode"
    /\ UNCHANGED <<argv, rsp_fs, env, path_bins, build_fs, args, linker,
                   remove_duplicate_libs, cwd, target_dir, use_response_file,
                   cmd_args, cmd_cwd, spawns, output>>

\* lines 259, 260
Decode ==
    /\ pc = "decode"
    /\ pc' = IF output[1].utf8 THEN "status" ELSE "err"
    /\ UNCHANGED <<argv, rsp_fs, env, path_bins, build_fs, args, linker,
                   remove_duplicate_libs, cwd, target_dir, use_response_file,
                   tmp_file, cmd_args, cmd_cwd, spawns, output>>

\* lines 265..276
Judge ==
    /\ pc = "status"
    /\ pc' = Verdict(output[1], env)
    /\ UNCHANGED <<argv, rsp_fs, env, path_bins, build_fs, args, linker,
                   remove_duplicate_libs, cwd, target_dir, use_response_file,
                   tmp_file, cmd_args, cmd_cwd, spawns, output>>

Next ==
    \/ Ingest
    \/ ParseFlags
    \/ InferTarget
    \/ MergeSideChannel
    \/ Dedup
    \/ BuildCommand
    \/ RunLinker
    \/ Cleanup
    \/ Decode
    \/ Judge

(***************************************************************************)
(* The invocations checked                                                 *)
(***************************************************************************)
MaxRaw == 3         \* raw arguments after the linker flag
MaxToks == 5        \* tokens given to the collapser
MaxLines == 4       \* lines of a companion output file
MaxEntries == 2     \* entries of <target>/build
PadSlack == 1       \* padded token counts lie within RSP_THRESHOLD +- PadSlack

OBJ == <<"a",".","o">>
LM == <<"-","l","m">>
LFOO == <<"-","l","f","o","o">>
AT_R == <<"@","r">>
AT_N == <<"@","n">>
GCC == <<"g","c","c">>
LD == <<"l","d">>
WDIR == <<"/","w">>
RLIB == <<"/","t","a","r","g","e","t","/","d","e","p","s","/","x">>
NL_TOK == <<"a","\n","b">>

ENV_NAMES == {CC_VARS[i] : i \in 1..Len(CC_VARS)} \cup {"LDPROXY_LINK_FAIL"}
NoEnv == [n \in ENV_NAMES |-> None]
\* every variable is unset or holds a value of its own
Envs == {e \in [ENV_NAMES -> {None, Some(<<"c","1">>), Some(<<"c","2">>), Some(<<"c","3">>), Some(<<"c","4">>), Some(<<"1">>)}] :
           /\ e[CC_VARS[1]] \in {None, Some(<<"c","1">>)}
           /\ e[CC_VARS[2]] \in {None, Some(<<"c","2">>)}
           /\ e[CC_VARS[3]] \in {None, Some(<<"c","3">>)}
           /\ e[CC_VARS[4]] \in {None, Some(<<"c","4">>)}
           /\ e["LDPROXY_LINK_FAIL"] \in {None, Some(<<"1">>)}}
Bins == SUBSET {possible_linkers[i] : i \in 1..Len(possible_linkers)}

NoRsp == [exists |-> FALSE, readable |-> FALSE, content |-> <<>>]
RspFile(content) == [exists |-> TRUE, readable |-> TRUE, content |-> content]
RspFiles ==
    {NoRsp, [exists |-> TRUE, readable |-> FALSE, content |-> <<>>]} \cup
    {RspFile(c) : c \in {<<>>, <<"a",".","o">>, <<"-","l","m"," ","@","r">>, <<"@","n","\n","'","a"," ","b","'">>, <<"a","\\"," ","b"," ","\"","c"," ","d","\"">>,
                         <<"-","-","l","d","p","r","o","x","y","-","d","e","d","u","p","-","l","i","b","s"," ","-","l","m"," ","-","l","m">>}}

NoBuild == [exists |-> FALSE, readable |-> FALSE, entries |-> <<>>]
Build(entries) == [exists |-> TRUE, readable |-> TRUE, entries |-> entries]
Directive(value) == LINK_ARG_DIRECTIVE \o value
OutputLines ==
    {Directive(LDPROXY_WORKING_DIRECTORY_ARG), Directive(LDPROXY_LINKER_ARG),
     Directive(LDPROXY_DEDUP_LIBS_ARG), Directive(<<"/","d">>), <<"c","a","r","g","o",":","x">>}
EspDir(name, lines) ==
    [name |-> name, is_dir |-> TRUE, out_exists |-> TRUE, out_readable |-> TRUE,
     lines |-> lines]
BuildEntries ==
    {EspDir(<<"e","s","p","-","i","d","f","-","s","y","s","-","a">>, <<Directive(LDPROXY_WORKING_DIRECTORY_ARG),
                                Directive(<<"/","a">>), Directive(LM)>>),
     EspDir(<<"e","s","p","-","i","d","f","-","s","y","s","-","b">>, <<Directive(LFOO)>>),
     EspDir(<<"o","t","h","e","r">>, <<Directive(OBJ)>>),
     [EspDir(<<"e","s","p","-","i","d","f","-","s","y","s","-","c">>, <<>>) EXCEPT !.out_exists = FALSE, !.out_readable = FALSE],
     [EspDir(<<"e","s","p","-","i","d","f","-","s","y","s","-","d">>, <<>>) EXCEPT !.out_readable = FALSE],
     [EspDir(<<"e","s","p","-","i","d","f","-","s","y","s","-","f">>, <<>>) EXCEPT !.is_dir = FALSE, !.out_exists = FALSE,
                                            !.out_readable = FALSE]}
BuildDirs ==
    {NoBuild, [exists |-> TRUE, readable |-> FALSE, entries |-> <<>>]}
    \cup {Build(<<EspDir(<<"e","s","p","-","i","d","f","-","s","y","s","-","1">>, lines)>>) : lines \in SeqsUpTo(OutputLines, MaxLines)}
    \cup {Build(entries) : entries \in SeqsUpTo(BuildEntries, MaxEntries)}

LinkerFlag == <<LDPROXY_LINKER_ARG, GCC>>
DedupFlag == {<<>>, <<LDPROXY_DEDUP_LIBS_ARG>>}

\* the state main() starts in, for the given surroundings
Start(raws, rsps, envs, bins, builds) ==
    /\ pc = "start"
    /\ argv \in raws
    /\ rsp_fs \in rsps
    /\ env \in envs
    /\ path_bins \in bins
    /\ build_fs \in builds
    /\ args = <<>>
    /\ linker = None
    /\ remove_duplicate_libs = FALSE
    /\ cwd = None
    /\ target_dir = None
    /\ use_response_file = FALSE
    /\ tmp_file = None
    /\ cmd_args = <<>>
    /\ cmd_cwd = None
    /\ spawns = 0
    /\ output = None

\* response files among the raw arguments
InitIngest ==
    Start({LinkerFlag \o s : s \in SeqsUpTo({OBJ, AT_R, AT_N}, MaxRaw)},
          RspFiles, {NoEnv}, {{}}, {NoBuild})

\* the linker flag, the environment and PATH
InitLinker ==
    Start({<<>>, <<OBJ>>, LinkerFlag, LinkerFlag \o <<OBJ, LDPROXY_LINKER_ARG, LD>>},
          {NoRsp}, Envs, Bins, {NoBuild})

\* the companion build directory
InitMerge ==
    Start({LinkerFlag \o <<RLIB>>,
           LinkerFlag \o <<OBJ, LDPROXY_WORKING_DIRECTORY_ARG, WDIR, RLIB>>,
           LinkerFlag \o <<LDPROXY_WORKING_DIRECTORY_ARG, WDIR, OBJ>>},
          {NoRsp}, {NoEnv}, {{}}, BuildDirs)

\* library tokens
InitDedup ==
    Start({LinkerFlag \o d \o s : d \in DedupFlag, s \in SeqsUpTo({OBJ, LM, LFOO}, MaxToks)},
          {NoRsp}, {NoEnv}, {{}}, {NoBuild})

\* token counts around the response-file threshold
InitInvoke ==
    Start({LinkerFlag \o d \o base \o Repeat(pad, n) :
             d \in DedupFlag, base \in {<<>>, <<NL_TOK>>, <<LM>>}, pad \in {OBJ, LM},
             n \in (RSP_THRESHOLD - PadSlack)..(RSP_THRESHOLD + PadSlack)},
          {NoRsp},
          {e \in Envs : \A i \in 1..Len(CC_VARS) : e[CC_VARS[i]] = None},
          {{}}, {NoBuild})

Init == InitIngest \/ InitLinker \/ InitMerge \/ InitDedup \/ InitInvoke

Spec == Init /\ [][Next]_vars

(***************************************************************************)
(* What the claims speak of                                                *)
(***************************************************************************)
\* s holds no line break
NoNewline(s) == \A i \in 1..Len(s) : s[i] # "\n"

\* the lines of the text s[lo..hi], as a reader splitting at every "\n" sees them
RECURSIVE SplitLines(_, _, _)
SplitLines(s, lo, hi) ==
    IF lo > hi THEN << <<>> >>
    ELSE IF lo = hi THEN (IF s[lo] = "\n" THEN << <<>>, <<>> >> ELSE << <<s[lo]>> >>)
    ELSE LET mid == (lo + hi) \div 2
             l == SplitLines(s, lo, mid)
             r == SplitLines(s, mid + 1, hi)
         IN SubSeq(l, 1, Len(l) - 1) \o << l[Len(l)] \o r[1] >> \o SubSeq(r, 2, Len(r))

LinesOf(s) == SplitLines(s, 1, Len(s))

\* the elements of s at the places in keep, in order
AtPlaces(s, keep) ==
    LET picked == SelectSeq([i \in 1..Len(s) |-> <<i, s[i]>>], LAMBDA p : p[1] \in keep)
    IN [k \in 1..Len(picked) |-> picked[k][2]]

\* pieces[lo..hi] put end to end
RECURSIVE Flatten(_, _, _)
Flatten(pieces, lo, hi) ==
    IF lo > hi THEN <<>>
    ELSE IF lo = hi THEN pieces[lo]
    ELSE LET mid == (lo + hi) \div 2 IN
           Flatten(pieces, lo, mid) \o Flatten(pieces, mid + 1, hi)

\* a is s with some elements left out
RECURSIVE IsSubseq(_, _)
IsSubseq(a, s) ==
    IF a = <<>> THEN TRUE
    ELSE IF s = <<>> THEN FALSE
    ELSE IF Head(a) = Head(s) THEN IsSubseq(Tail(a), Tail(s))
    ELSE IsSubseq(a, Tail(s))

(***************************************************************************)
(* C1: with the dedup toggle set, the collapser keeps every token that     *)
(* does not begin with "-l" and, of each token that does, only its last    *)
(* occurrence, all in their original order; with the toggle not set it     *)
(* leaves the token list unchanged.                                        *)
(***************************************************************************)
LastOccurrences(toks) ==
    {i \in 1..Len(toks) :
        StartsWith(toks[i], LIB_PREFIX) => \A j \in (i + 1)..Len(toks) : toks[j] # toks[i]}

C1_DedupKeepsLast ==
    [][pc = "dedup" =>
         args' = IF remove_duplicate_libs
                   THEN AtPlaces(args, LastOccurrences(args))
                   ELSE args]_vars

C1_Witness ==
    /\ pc = "command"
    /\ remove_duplicate_libs
    /\ argv = LinkerFlag \o <<LDPROXY_DEDUP_LIBS_ARG, OBJ, OBJ, LM, LFOO, LM>>
    /\ args = <<OBJ, OBJ, LFOO, LM>>

(***************************************************************************)
(* C2: once the response file has been written for a token list of more    *)
(* than 500 tokens, it no longer exists when the invocation ends, however  *)
(* it ends.                                                                *)
(***************************************************************************)
C2_FileGoneAtEnd ==
    (Ended /\ Len(args) > RSP_THRESHOLD /\ cmd_args = <<AtFile(response_file)>>)
        => tmp_file = None

(***************************************************************************)
(* C3: up to 500 tokens the linker gets the tokens themselves and no file  *)
(* is written; above 500, when the write succeeds, it gets the one         *)
(* argument "@<path>" and the file holds one line per token, in order.     *)
(***************************************************************************)
C3_OneLinePerToken ==
    pc = "spawn" =>
        IF Len(args) <= RSP_THRESHOLD
          THEN cmd_args = args /\ tmp_file = None
          ELSE IsSome(tmp_file) =>
                 /\ cmd_args = <<AtFile(response_file)>>
                 /\ LinesOf(tmp_file[1]) = args

\* C3 as amended: the file holds the tokens joined by single line breaks,
\* which is one line per token when no token holds a line break itself
C3_JoinedByNewlines ==
    pc = "spawn" =>
        IF Len(args) <= RSP_THRESHOLD
          THEN cmd_args = args /\ tmp_file = None
          ELSE IsSome(tmp_file) =>
                 /\ cmd_args = <<AtFile(response_file)>>
                 /\ Len(tmp_file[1]) = Len(Flatten(args, 1, Len(args))) + Len(args) - 1
                 /\ (\A i \in 1..Len(args) : NoNewline(args[i]))
                      => LinesOf(tmp_file[1]) = args

C3_Witness ==
    /\ pc = "spawn"
    /\ Len(args) = RSP_THRESHOLD + 1
    /\ IsSome(tmp_file)
    /\ \A i \in 1..Len(args) : NoNewline(args[i])
    /\ cmd_args = <<AtFile(response_file)>>

(***************************************************************************)
(* C8: the linker is started at most once; the invocation ends in success  *)
(* only if that run exited with success and LDPROXY_LINK_FAIL is unset,    *)
(* and in failure whenever the run exited without success or the variable  *)
(* is set.                                                                 *)
(***************************************************************************)
C8_OneRunDecides ==
    /\ spawns <= 1
    /\ pc = "ok" => /\ spawns = 1
                    /\ output[1].success
                    /\ env["LDPROXY_LINK_FAIL"] = None
    /\ (Ended /\ IsSome(output)
          /\ (~output[1].success \/ IsSome(env["LDPROXY_LINK_FAIL"]))) => pc = "err"

C8_Witness ==
    /\ pc = "err"
    /\ spawns = 1
    /\ output[1].success /\ output[1].utf8
    /\ IsSome(env["LDPROXY_LINK_FAIL"])

(***************************************************************************)
(* C9: args() yields, in the order of the raw arguments, every argument    *)
(* not starting with "@" as it is, the tokens of the file for "@<path>"    *)
(* with an existing path, and "@<path>" itself when the path does not      *)
(* exist; a token read from a file is never expanded again.                *)
(***************************************************************************)
Expansion(arg, fs) ==
    IF Len(arg) >= 1 /\ arg[1] = "@" /\ Tail(arg) = RSP_PATH /\ fs.exists
      THEN UnixCommandArgs(fs.content)
      ELSE <<arg>>

C9_OneLevelExpansion ==
    [][(pc = "start" /\ pc' = "parse") =>
         args' = Flatten([i \in 1..Len(argv) |-> Expansion(argv[i], rsp_fs)], 1, Len(argv))]_vars

C9_Witness ==
    /\ pc = "parse"
    /\ rsp_fs = RspFile(<<"-","l","m"," ","@","r">>)
    /\ argv = LinkerFlag \o <<AT_N, AT_R, OBJ>>
    /\ args = LinkerFlag \o <<AT_N, LM, AT_R, OBJ>>

(***************************************************************************)
(* The companion output file, as the claims C4, C5, C6 and C10 read it     *)
(***************************************************************************)
\* the places of the subdirectories of <target>/build named esp-idf-sys-*
Matching(entries) ==
    {i \in 1..Len(entries) :
        entries[i].is_dir /\ StartsWith(entries[i].name, ESP_IDF_SYS_PREFIX)}

First(places) == CHOOSE i \in places : \A j \in places : i <= j

\* whether a companion output file is there to be read for the directory dir
HasCompanion(fs, dir) ==
    /\ IsSome(dir)
    /\ dir[1] = FS_TARGET
    /\ fs.exists /\ fs.readable
    /\ Matching(fs.entries) # {}
    /\ LET first == fs.entries[First(Matching(fs.entries))]
       IN first.out_exists /\ first.out_readable

\* the values of the cargo:rustc-link-arg= lines of that file, in file order
Directives(fs, dir) ==
    IF HasCompanion(fs, dir)
      THEN LET lines == fs.entries[First(Matching(fs.entries))].lines
               found == SelectSeq(lines, LAMBDA l : StartsWith(l, LINK_ARG_DIRECTIVE))
           IN [k \in 1..Len(found) |->
                 SubSeq(found[k], Len(LINK_ARG_DIRECTIVE) + 1, Len(found[k]))]
      ELSE <<>>

\* the directive at place i is the payload of the marker before it
RECURSIVE IsPayload(_, _)
IsPayload(values, i) ==
    /\ i > 1
    /\ values[i] # LDPROXY_WORKING_DIRECTORY_ARG
    /\ \/ values[i - 1] = LDPROXY_WORKING_DIRECTORY_ARG
       \/ values[i - 1] = LDPROXY_LINKER_ARG /\ ~IsPayload(values, i - 1)

\* the directives that are extra arguments: neither a payload nor a value
\* with the proxy's own prefix (the two markers have it)
ExtraArgs(values) ==
    AtPlaces(values, {i \in 1..Len(values) :
                        ~IsPayload(values, i) /\ ~StartsWith(values[i], LDPROXY_PREFIX)})

\* the places of the payloads that follow a working-directory marker
CwdPayloads(values) ==
    {i \in 2..Len(values) :
        /\ values[i - 1] = LDPROXY_WORKING_DIRECTORY_ARG
        /\ values[i] # LDPROXY_WORKING_DIRECTORY_ARG}

Last(places) == CHOOSE i \in places : \A j \in places : j <= i

C5_CwdFromCompanion ==
    [][(pc = "merge" /\ CwdPayloads(Directives(build_fs, target_dir)) # {}) =>
         LET values == Directives(build_fs, target_dir)
             dir == Last(CwdPayloads(values))
             appended == SubSeq(args', Len(args) + 1, Len(args'))
         IN /\ cwd' = Some(values[dir])
            /\ IsSubseq(appended, AtPlaces(values, (1..Len(values)) \ {dir - 1, dir}))
            /\ \A k \in 1..Len(appended) : appended[k] # LDPROXY_WORKING_DIRECTORY_ARG]_vars

(***************************************************************************)
(* C6: a linker-path marker directive and its payload are skipped: neither *)
(* is appended to the tokens, the linker stays as resolved, and the        *)
(* working directory after the merge is the one before it or the payload   *)
(* of a working-directory marker.                                          *)
(***************************************************************************)
C6_LinkerMarkerSkipped ==
    [][pc = "merge" =>
         LET values == Directives(build_fs, target_dir)
             appended == SubSeq(args', Len(args) + 1, Len(args'))
             skipped == {i \in 1..Len(values) :
                           \/ values[i] = LDPROXY_LINKER_ARG /\ ~IsPayload(values, i)
                           \/ /\ IsPayload(values, i)
                              /\ values[i - 1] = LDPROXY_LINKER_ARG}
         IN /\ IsSubseq(appended, AtPlaces(values, (1..Len(values)) \ skipped))
            /\ linker' = linker
            /\ \/ cwd' = cwd
               \/ \E i \in CwdPayloads(values) : cwd' = Some(values[i])]_vars

(***************************************************************************)
(* C7: the linker is the last value of the linker flag when the flag is    *)
(* given, else the first of CC_riscv32imafc_esp_espidf,                    *)
(* CC_riscv32imac_esp_espidf, CC_riscv32imc_esp_espidf, CC that is set,    *)
(* else the first of the three known linkers found on PATH; with none of   *)
(* them the invocation panics, starts no process and writes no file.       *)
(***************************************************************************)
ExpectedLinker(toks, e, bins) ==
    LET flag == ParseFrom(toks)
        set == {i \in 1..Len(CC_VARS) : e[CC_VARS[i]] # None}
        onpath == {i \in 1..Len(possible_linkers) : possible_linkers[i] \in bins}
    IN IF flag.linker_ok /\ flag.linker # <<>> THEN Some(flag.linker[Len(flag.linker)])
       ELSE IF set # {} THEN e[CC_VARS[First(set)]]
       ELSE IF onpath # {} THEN Some(possible_linkers[First(onpath)])
       ELSE None

C7_LinkerResolution ==
    /\ [][pc = "parse" =>
            /\ linker' = ExpectedLinker(args, env, path_bins)
            /\ (pc' = "panic") = (ExpectedLinker(args, env, path_bins) = None)]_vars
    /\ [](pc = "panic" => (spawns = 0 /\ tmp_file = None /\ ~ENABLED Next))

C7_Witness ==
    /\ pc = "infer"
    /\ argv = <<OBJ>>
    /\ env[CC_VARS[1]] = None /\ env[CC_VARS[2]] = None
    /\ env[CC_VARS[3]] # None /\ env[CC_VARS[4]] # None
    /\ path_bins # {}
    /\ linker = env[CC_VARS[3]]

(***************************************************************************)
(* C10: only the first enumerated subdirectory named esp-idf-sys-* is      *)
(* consulted: arguments and working directory come from its output file    *)
(* alone, and without a readable output file there the merge changes       *)
(* nothing, whatever later subdirectories hold.                            *)
(***************************************************************************)
C10_FirstMatchOnly ==
    [][(pc = "merge" /\ IsSome(target_dir) /\ target_dir[1] = FS_TARGET
          /\ build_fs.exists /\ build_fs.readable /\ Matching(build_fs.entries) # {}) =>
         LET first == build_fs.entries[First(Matching(build_fs.entries))]
             alone == read_esp_idf_sys_link_args(Build(<<first>>), FS_TARGET)
         IN IF first.out_exists /\ first.out_readable
              THEN /\ args' = args \o alone.link_args
                   /\ cwd' = IF IsSome(alone.working_dir) THEN alone.working_dir ELSE cwd
              ELSE args' = args /\ cwd' = cwd]_vars

C10_Witness ==
    /\ pc = "dedup"
    /\ IsSome(target_dir)
    /\ Len(build_fs.entries) = 2
    /\ Matching(build_fs.entries) = {1, 2}
    /\ ~build_fs.entries[1].out_exists
    /\ build_fs.entries[2].out_exists /\ build_fs.entries[2].out_readable
    /\ build_fs.entries[2].lines # <<>>
    /\ args = <<RLIB>>
    /\ cwd = None
====
